---------------------------- MODULE Spec2Model ----------------------------
(***************************************************************************)
(* Model of the two numerical kernels of statistics-bootstrap:             *)
(*   boot.cc          balanced bootstrap / bootknife index generation      *)
(*   smoothmedian.cpp smoothed median by a Newton-Bisection hybrid         *)
(* The two kernels share no state; each has its own specification          *)
(* (SpecBoot, SpecMedian) over its own variables.                          *)
(***************************************************************************)
EXTENDS Integers, Sequences, FiniteSets, TLC

(***************************************************************************)
(* Bounds of the model.                                                    *)
(***************************************************************************)
MaxN == 3
MaxBoot == 2

(***************************************************************************)
(*                              boot.cc                                    *)
(***************************************************************************)
VARIABLES
    bpc,        \* position in boot: "start", "row", "draw", "restore", "done"
    nargs,      \* args.length ()
    nArg,       \* args(0).int_value ()
    outcome,    \* "none", "usage" (print_usage error), "trap" or "returned"
    n,          \* const short int n
    nboot,      \* const int nboot
    u,          \* bool u
    bootsam,    \* int16NDArray bootsam (dv); 0 marks a cell not yet written
    c,          \* int c[n]
    N,          \* int N
    k,          \* int k
    LOO,        \* bool LOO
    r,          \* int r
    m,          \* int m
    b,          \* column counter of the outer loop
    i           \* row counter of the inner loop

bvars == <<bpc, nargs, nArg, outcome, n, nboot, u, bootsam, c, N, k, LOO, r, m, b, i>>

(***************************************************************************)
(* State of smoothmedian.cpp.  The names m, n, k and b of that file are    *)
(* taken by boot.cc above and carry the prefix sm_ here.                   *)
(***************************************************************************)
VARIABLES
    spc,        \* position in mexFunction: "start", "column", "loop",
                \* "converge", "endcol", "done"
    nrhs,       \* number of arguments of the call
    dim,        \* short int dim
    Tol,        \* double Tol
    sm_m,       \* int m: length of a vector
    sm_n,       \* int n: number of vectors
    M,          \* double *M: the output, one slot per vector
    xvec,       \* vector<double> xvec, indexed from 0
    a,          \* double a
    sm_b,       \* double b
    range,      \* double range
    step,       \* double step
    sm_k,       \* int k of the loop of line 129
    Iter,       \* int Iter of the loop of line 157
    err,        \* message of mexErrMsgTxt, "none" while the call is not aborted
    warned,     \* the vector numbers printed by mexPrintf at line 215
    evals,      \* derivative passes made for the current vector
    leave       \* how the loop of line 157 was left for the current vector

svars == <<spc, nrhs, dim, Tol, sm_m, sm_n, M, xvec, a, sm_b, range, step,
           sm_k, Iter, err, warned, evals, leave>>

vars == <<bvars, svars>>

\* Number of values of a 16-bit short int.
ShortRange == 65536

\* Largest value of a 16-bit short int.
ShortMax == 32767

\* Conversion of an int to short int (line 42): value modulo 2^16, signed.
ToShort(x) ==
    LET w == x % ShortRange
    IN  IF w > ShortMax THEN w - ShortRange ELSE w

\* Values offered for args(0): 0, the valid sizes, and sizes above the short range.
NArgVals == (0..MaxN) \cup {ShortRange + 1, ShortRange + 2}

\* Values offered for args(1).
NbootVals == 0..MaxBoot

\* dim_vector dv (n, nboot): the index set of the matrix.
Cells(rows, cols) == (0..(rows - 1)) \X (0..(cols - 1))

\* Lines 48-51: every counter starts at nboot.
InitCounts(nn, nb) == [j \in 0..(nn - 1) |-> nb]

\* Line 66: r = b - (b / n) * n.
LooIndex(bb, nn) == bb - (bb \div nn) * nn

\* Line 70: the guard of the leave-one-out exclusion.
LooGuard(cc, rr, NN) == cc[rr] # NN

\* Line 72: c[r] = 0.
LooZeroSkipped(cc, rr) == cc
LooZero(cc, rr) == [cc EXCEPT ![rr] = 0]

\* Line 76: k = dist(rng) * (N - m), with dist(rng) in [0, 1).
DrawRangeClosed(NN, mm) == 0..(NN - mm)
DrawRange(NN, mm) == 0..(NN - mm - 1)

\* Lines 77-87: the cumulative-sum walk.  found: a cell value was assigned at
\* index j; oob: the else branch at j = n - 1 read c[n].
RECURSIVE WalkFromLE(_, _, _, _, _)
WalkFromLE(cc, kk, nn, j, d) ==
    IF kk <= d
    THEN [found |-> TRUE, j |-> j, oob |-> FALSE]
    ELSE IF j + 1 = nn
         THEN [found |-> FALSE, j |-> nn, oob |-> TRUE]
         ELSE WalkFromLE(cc, kk, nn, j + 1, d + cc[j + 1])

RECURSIVE WalkFrom(_, _, _, _, _)
WalkFrom(cc, kk, nn, j, d) ==
    IF kk < d
    THEN [found |-> TRUE, j |-> j, oob |-> FALSE]
    ELSE IF j + 1 = nn
         THEN [found |-> FALSE, j |-> nn, oob |-> TRUE]
         ELSE WalkFrom(cc, kk, nn, j + 1, d + cc[j + 1])

WalkLE(cc, kk, nn) == WalkFromLE(cc, kk, nn, 0, cc[0])
Walk(cc, kk, nn) == WalkFrom(cc, kk, nn, 0, cc[0])

\* Line 89: c[r] = m.
LooRestoreNone(cc, rr, mm) == cc
LooRestore(cc, rr, mm) == [cc EXCEPT ![rr] = mm]

RECURSIVE SumTo(_, _)
SumTo(cc, j) == IF j < 0 THEN 0 ELSE cc[j] + SumTo(cc, j - 1)

\* Sum of the counters c[0..n-1].
SumCounts == SumTo(c, n - 1)

\* Number of cells written so far.
Drawn == Cardinality({x \in DOMAIN bootsam : bootsam[x] # 0})

\* Number of cells holding the index v.
Occurrences(v) == Cardinality({x \in DOMAIN bootsam : bootsam[x] = v})

InitBoot ==
    /\ bpc = "start"
    /\ nargs = 0
    /\ nArg = 0
    /\ outcome = "none"
    /\ n = 0
    /\ nboot = 0
    /\ u = FALSE
    /\ bootsam = << >>
    /\ c = << >>
    /\ N = 0
    /\ k = 0
    /\ LOO = FALSE
    /\ r = -1
    /\ m = 0
    /\ b = 0
    /\ i = 0

\* Lines 38-39: a call with other than three arguments ends in print_usage.
boot_usage ==
    /\ UNCHANGED svars
    /\ bpc = "start"
    /\ \E na \in {2, 4} : nargs' = na
    /\ outcome' = "usage"
    /\ bpc' = "done"
    /\ UNCHANGED <<nArg, n, nboot, u, bootsam, c, N, k, LOO, r, m, b, i>>

\* Where the loops of lines 64 and 68 stand for counters bb, ii.
LoopPosition(bb, ii, nn, nb) ==
    IF bb < nb /\ ii < nn THEN "row" ELSE "done"

\* Lines 42-62: declarations; the outer loop is entered when nboot > 0 and the
\* inner one when n > 0, otherwise line 96 returns the matrix as allocated.
\* In unbiased mode with n = 0 line 66 divides by zero: the behaviour is
\* undefined, the call either traps or goes on to return the empty matrix.
boot_call ==
    /\ UNCHANGED svars
    /\ bpc = "start"
    /\ \E a0 \in NArgVals, a1 \in NbootVals, a2 \in BOOLEAN :
        LET nn == ToShort(a0)
            divzero == a2 /\ a1 > 0 /\ nn = 0
        IN  /\ nargs' = 3
            /\ nArg' = a0
            /\ n' = nn
            /\ nboot' = a1
            /\ u' = a2
            /\ bootsam' = [x \in Cells(nn, a1) |-> 0]
            /\ c' = InitCounts(nn, a1)
            /\ N' = nn * a1
            /\ r' = IF a2 /\ a1 > 0 /\ nn # 0 THEN LooIndex(0, nn) ELSE -1
            /\ bpc' = LoopPosition(0, 0, nn, a1)
            /\ IF LoopPosition(0, 0, nn, a1) = "done"
               THEN IF divzero
                    THEN outcome' \in {"trap", "returned"}
                    ELSE outcome' = "returned"
               ELSE outcome' = "none"
    /\ UNCHANGED <<k, LOO, m, b, i>>

\* Lines 69-75: the leave-one-out exclusion at the top of a row.
boot_loo ==
    /\ UNCHANGED svars
    /\ bpc = "row"
    /\ IF u /\ LooGuard(c, r, N)
       THEN /\ m' = c[r]
            /\ c' = LooZero(c, r)
            /\ LOO' = TRUE
       ELSE UNCHANGED <<m, c, LOO>>
    /\ bpc' = "draw"
    /\ UNCHANGED <<nargs, nArg, outcome, n, nboot, u, bootsam, N, k, r, b, i>>

\* Lines 76-87: one random draw and the walk that places it.  When the walk
\* runs off the end (a read of c[n], whose value is never used) no cell is
\* written and no counter changes.
boot_draw ==
    /\ UNCHANGED svars
    /\ bpc = "draw"
    /\ \E kk \in DrawRange(N, m) :
        LET w == Walk(c, kk, n)
        IN  /\ k' = kk
            /\ IF w.found
               THEN /\ bootsam' = [bootsam EXCEPT ![<<i, b>>] = w.j + 1]
                    /\ c' = [c EXCEPT ![w.j] = @ - 1]
                    /\ N' = N - 1
               ELSE UNCHANGED <<bootsam, c, N>>
    /\ bpc' = "restore"
    /\ UNCHANGED <<nargs, nArg, outcome, n, nboot, u, LOO, r, m, b, i>>

\* Lines 88-92, then the loop increments of lines 68 and 64-67, then line 96.
boot_restore ==
    /\ UNCHANGED svars
    /\ bpc = "restore"
    /\ IF LOO
       THEN /\ c' = LooRestore(c, r, m)
            /\ m' = 0
            /\ LOO' = FALSE
       ELSE UNCHANGED <<c, m, LOO>>
    /\ LET bb == IF i + 1 < n THEN b ELSE b + 1
           ii == IF i + 1 < n THEN i + 1 ELSE 0
       IN  /\ b' = bb
           /\ i' = ii
           /\ r' = IF u /\ bb < nboot THEN LooIndex(bb, n) ELSE r
           /\ bpc' = LoopPosition(bb, ii, n, nboot)
           /\ outcome' = IF LoopPosition(bb, ii, n, nboot) = "done"
                         THEN "returned" ELSE outcome
    /\ UNCHANGED <<nargs, nArg, n, nboot, u, bootsam, N, k>>

NextBoot ==
    \/ boot_usage
    \/ boot_call
    \/ boot_loo
    \/ boot_draw
    \/ boot_restore




(***************************************************************************)
(* Properties of boot.cc                                                   *)
(***************************************************************************)

\* The call went through the declarations of lines 42-56.
Generating == nargs = 3 /\ bpc \in {"row", "draw", "restore", "done"}

\* The cell the current row of the current column writes.
Cell == <<i, b>>

\* The outcomes that are an error raised by boot: print_usage is the only one.
ErrorOutcomes == {"usage"}

\* C1: for a valid size (1 <= n <= 32767) and nboot >= 1, in both modes and
\* for every sequence of draws, the returned matrix has n rows and nboot
\* columns and holds every index of 1..n exactly nboot times.
BalanceProperty ==
    (bpc = "done" /\ nargs = 3 /\ nArg \in 1..ShortMax /\ nboot >= 1) =>
        /\ outcome = "returned"
        /\ DOMAIN bootsam = Cells(nArg, nboot)
        /\ \A v \in 1..nArg : Occurrences(v) = nboot
        /\ \A x \in DOMAIN bootsam : bootsam[x] \in 1..nArg

\* C1 witness: a returned matrix of at least 2 x 2 in unbiased mode.
BalanceWitness ==
    /\ bpc = "done" /\ outcome = "returned" /\ u
    /\ n >= 2 /\ nboot >= 2
    /\ \A v \in 1..n : Occurrences(v) = nboot

\* C2: in unbiased mode r is b mod n; a row at which c[r] differs from N gets
\* the leave-one-out exclusion (c[r] zeroed, its value saved in m), a row at
\* which c[r] equals N does not; a draw made under the exclusion never writes
\* r + 1, so r + 1 is written only at a row where c[r] equalled N.
BootknifeExclusion ==
    [][ /\ (bpc = "row" /\ u) =>
            /\ r = b % n
            /\ (c[r] # N => LOO' /\ c'[r] = 0 /\ m' = c[r])
            /\ (c[r] = N => ~LOO' /\ c' = c)
        /\ (bpc = "draw" /\ u) =>
            /\ (LOO => bootsam'[Cell] # r + 1)
            /\ (bootsam'[Cell] = r + 1 => ~LOO /\ c[r] = N)
      ]_vars

\* C2 witness: a draw was made under the exclusion while index r still had
\* counts left.
BootknifeWitness ==
    bpc = "restore" /\ u /\ LOO /\ m > 0 /\ bootsam[Cell] \in 1..n

\* C3: every draw ends inside the walk at an index j of 0..n-1 whose counter
\* is positive, never reads c[n], and writes the one cell of its row and
\* column, which was not written before, with a value of 1..n; when the
\* matrix is returned every cell has been written.
WalkInRange ==
    [][ /\ bpc = "draw" =>
            LET w == Walk(c, k', n)
            IN  /\ k' \in 0..(N - m - 1)
                /\ w.found /\ ~w.oob
                /\ w.j \in 0..(n - 1)
                /\ c[w.j] > 0
                /\ bootsam[Cell] = 0
                /\ bootsam'[Cell] = w.j + 1
                /\ bootsam'[Cell] \in 1..n
                /\ \A x \in DOMAIN bootsam : x # Cell => bootsam'[x] = bootsam[x]
        /\ (bpc' = "done" /\ outcome' = "returned") =>
            \A x \in DOMAIN bootsam' : bootsam'[x] \in 1..n
      ]_vars

\* C3 witness: the largest possible k was drawn and the walk ended at the
\* last index.
WalkWitness ==
    bpc = "restore" /\ n >= 2 /\ k = N - m /\ bootsam[Cell] = n

\* C6 as claimed: a call with n <= 0, nboot <= 0 or n above 32767 ends in an
\* error and returns no matrix.
InvalidSizeRejected ==
    (bpc = "done" /\ nargs = 3 /\ (nArg <= 0 \/ nboot <= 0 \/ nArg > ShortMax)) =>
        outcome \in ErrorOutcomes

\* C9 as claimed: at all times every counter is >= 0 and the counters sum to
\* n * nboot minus the number of indices drawn, which is also N.
CountsSumAlways ==
    Generating =>
        /\ \A j \in 0..(n - 1) : c[j] >= 0
        /\ SumCounts = n * nboot - Drawn
        /\ N = n * nboot - Drawn

\* C9 amended: before and after every draw every counter is >= 0 and N is
\* n * nboot minus the number of indices drawn; the counters sum to N - m,
\* where m is the count set aside by the leave-one-out exclusion of the
\* current row and is 0 outside the window between lines 72 and 89.
CountsSumOutsideExclusion ==
    Generating =>
        /\ \A j \in 0..(n - 1) : c[j] >= 0
        /\ N = n * nboot - Drawn
        /\ SumCounts + m = N
        /\ m >= 0
        /\ (~LOO => m = 0)
        /\ (LOO => bpc \in {"draw", "restore"} /\ c[r] = 0)

\* C9 witness: inside the exclusion window with a positive count set aside.
CountsSumWitness ==
    bpc = "draw" /\ LOO /\ m > 0 /\ SumCounts = N - m /\ Drawn > 0


(***************************************************************************)
(*                          smoothmedian.cpp                               *)
(*                                                                         *)
(* A double is modelled as a record: a finite value is a whole number of   *)
(* units of 1 / Unit whose magnitude is at most DblMax units, and there    *)
(* are the three special values NaN, +Inf and -Inf.  A result that is not  *)
(* a whole number of units is rounded toward zero, a result beyond DblMax  *)
(* overflows to an infinity, and the special values propagate as in IEEE   *)
(* 754 arithmetic.  Zero carries no sign.                                  *)
(***************************************************************************)

\* Units per 1.0.
Unit == 10000

\* Largest finite magnitude, in units (20.0).
DblMax == 200000

Fin(v) == [t |-> "fin", v |-> v]
NaN == [t |-> "nan", v |-> 0]
PInf == [t |-> "inf", v |-> 1]
NInf == [t |-> "inf", v |-> -1]
Zero == Fin(0)

IAbs(v) == IF v < 0 THEN -v ELSE v
ISign(v) == IF v < 0 THEN -1 ELSE IF v > 0 THEN 1 ELSE 0
SignedInf(sg) == IF sg < 0 THEN NInf ELSE PInf

\* Rounding of an exact result to a double: overflow gives an infinity.
Norm(v) == IF v > DblMax THEN PInf ELSE IF v < -DblMax THEN NInf ELSE Fin(v)

\* mxIsFinite.
mxIsFinite(x) == x.t = "fin"

IsNaN(x) == x.t = "nan"

DNeg(x) == IF x.t = "nan" THEN NaN ELSE [x EXCEPT !.v = -x.v]

\* x + y.
DAdd(x, y) ==
    IF IsNaN(x) \/ IsNaN(y) THEN NaN
    ELSE IF x.t = "inf" /\ y.t = "inf" THEN (IF x.v = y.v THEN x ELSE NaN)
    ELSE IF x.t = "inf" THEN x
    ELSE IF y.t = "inf" THEN y
    ELSE Norm(x.v + y.v)

\* x - y.
DSub(x, y) == DAdd(x, DNeg(y))

\* x * y.
DMul(x, y) ==
    IF IsNaN(x) \/ IsNaN(y) THEN NaN
    ELSE IF x.t = "inf" \/ y.t = "inf"
         THEN (IF x.v = 0 \/ y.v = 0 THEN NaN ELSE SignedInf(ISign(x.v) * ISign(y.v)))
    ELSE IF x.v = 0 \/ y.v = 0 THEN Zero
    ELSE IF IAbs(x.v) > (DblMax * Unit + Unit - 1) \div IAbs(y.v)
         THEN SignedInf(ISign(x.v) * ISign(y.v))
    ELSE Fin(ISign(x.v) * ISign(y.v) * ((IAbs(x.v) * IAbs(y.v)) \div Unit))

\* x / y.
DDiv(x, y) ==
    IF IsNaN(x) \/ IsNaN(y) THEN NaN
    ELSE IF x.t = "inf"
         THEN (IF y.t = "inf" THEN NaN
               ELSE SignedInf(x.v * (IF y.v < 0 THEN -1 ELSE 1)))
    ELSE IF y.t = "inf" THEN Zero
    ELSE IF y.v = 0 THEN (IF x.v = 0 THEN NaN ELSE SignedInf(x.v))
    ELSE Norm(ISign(x.v) * ISign(y.v) * ((IAbs(x.v) * Unit) \div IAbs(y.v)))

\* Largest whole number whose square is at most v, for lo * lo <= v.
RECURSIVE ISqrtIn(_, _, _)
ISqrtIn(v, lo, hi) ==
    IF lo >= hi THEN lo
    ELSE LET mid == (lo + hi + 1) \div 2
         IN  IF mid * mid <= v THEN ISqrtIn(v, mid, hi) ELSE ISqrtIn(v, lo, mid - 1)

\* sqrt (x).
DSqrt(x) ==
    IF IsNaN(x) THEN NaN
    ELSE IF x.t = "inf" THEN (IF x.v > 0 THEN PInf ELSE NaN)
    ELSE IF x.v < 0 THEN NaN
    ELSE Fin(ISqrtIn(x.v * Unit, 0, 46340))

\* pow (x, 2).
DPow2(x) == DMul(x, x)

\* abs (x).
DAbs(x) == IF x.t = "fin" THEN Fin(IAbs(x.v)) ELSE IF x.t = "inf" THEN PInf ELSE NaN

\* Position of a double that is not NaN on the extended number line.
Key(x) == IF x.t = "fin" THEN x.v ELSE x.v * (DblMax + 1)

\* x < y, x <= y, x > y and x != y: a comparison with NaN is false, except !=.
DLt(x, y) == ~IsNaN(x) /\ ~IsNaN(y) /\ Key(x) < Key(y)
DLe(x, y) == ~IsNaN(x) /\ ~IsNaN(y) /\ Key(x) <= Key(y)
DGt(x, y) == DLt(y, x)
DNe(x, y) == IsNaN(x) \/ IsNaN(y) \/ Key(x) # Key(y)

\* The literals 0.5, 2 and 1e-4.
Half == Fin(Unit \div 2)
Two == Fin(2 * Unit)
TolFactor == Fin(Unit \div 10000)


\* Bounds on the input matrix: the length of a vector, the number of vectors
\* and the number of elements.
MaxLen == 3
MaxVecs == 2
MaxElems == 6

\* Line 128.
MaxIter == 19

\* The values an element of x is drawn from: 0, 0.25, 1, a value above
\* DblMax / 2, NaN and +Inf.
DataVals == {Fin(0), Fin(Unit \div 4), Fin(Unit), Fin(DblMax - DblMax \div 4), NaN, PInf}

\* The values a supplied Tol is drawn from: 0 and 2.
TolVals == {Fin(0), Fin(2 * Unit)}

Indices(len) == 0..(len - 1)

AllFinite(xs) == \A j \in DOMAIN xs : mxIsFinite(xs[j])

\* Lines 132-137: the vector after the copy and sort (xvec.begin(),
\* xvec.end()): the values of the column in ascending order.  With a NaN
\* among the values operator< is no strict weak ordering and the order of the
\* result is unspecified: any arrangement of the values.
SortedVectors(len) ==
    {xs \in [Indices(len) -> DataVals] :
        \/ \E j \in Indices(len) : IsNaN(xs[j])
        \/ \A j \in Indices(len) : j + 1 < len => DLe(xs[j], xs[j + 1])}

\* Line 119 and lines 140-144: float mid = 0.5 * m; int(mid) is m / 2 rounded
\* down and mid == int(mid) holds when m is even.
SeedMedianOdd(xs, len) == xs[len \div 2]
SeedMedian(xs, len) ==
    LET imid == len \div 2
    IN  IF 2 * imid = len
        THEN DMul(DAdd(xs[imid], xs[imid - 1]), Half)
        ELSE xs[imid]

\* Line 153.
DefaultTol(rng) == DMul(rng, TolFactor)

\* Line 157: the loop condition.
LoopContinuesShort(it) == it < MaxIter
LoopContinues(it) == it <= MaxIter

\* Line 161.
RangeBreak(rng, tol) == DLe(rng, tol)

\* Lines 166-185: the sums T and U over the pairs i < j, in the order of the
\* two loops.
RECURSIVE DerivFrom(_, _, _, _, _, _, _)
DerivFrom(xs, len, Mk, j, ii, T, U) ==
    IF j >= len THEN [T |-> T, U |-> U]
    ELSE IF ii >= j THEN DerivFrom(xs, len, Mk, j + 1, 0, T, U)
    ELSE LET D == DAdd(DPow2(DSub(xs[ii], Mk)), DPow2(DSub(xs[j], Mk)))
             R == DSqrt(D)
         IN  IF DNe(D, Zero)
             THEN DerivFrom(xs, len, Mk, j, ii + 1,
                     DAdd(T, DDiv(DSub(DSub(DMul(Two, Mk), xs[ii]), xs[j]), R)),
                     DAdd(U, DDiv(DMul(DPow2(DSub(xs[ii], xs[j])), R), DPow2(D))))
             ELSE DerivFrom(xs, len, Mk, j, ii + 1, T, U)

Derivatives(xs, len, Mk) == DerivFrom(xs, len, Mk, 0, 0, Zero, Zero)

\* Line 188.
NewtonStep(xs, len, Mk) ==
    LET d == Derivatives(xs, len, Mk) IN DDiv(d.T, d.U)

\* Line 191.
Converged(st, tol) == DLt(DAbs(st), tol)

\* Lines 195-199.
NewLower(lo, Mk, st) == IF DLt(st, Zero) THEN Mk ELSE lo
NewUpper(hi, Mk, st) == IF ~DLt(st, Zero) /\ DGt(st, Zero) THEN Mk ELSE hi

\* Lines 203-211: lo and hi are the bounds as updated by lines 195-199.
NextEstimateNewton(lo, hi, Mk, st) == DSub(Mk, st)
NextEstimate(lo, hi, Mk, st) ==
    LET nwt == DSub(Mk, st)
    IN  IF DGt(nwt, lo) /\ DLt(nwt, hi)
        THEN nwt
        ELSE DMul(Half, DAdd(lo, hi))

\* Line 214.
WarnAt(it) == it = MaxIter

InitMedian ==
    /\ spc = "start"
    /\ nrhs = 0
    /\ dim = 1
    /\ Tol = Zero
    /\ sm_m = 0
    /\ sm_n = 0
    /\ M = << >>
    /\ xvec = << >>
    /\ a = Zero
    /\ sm_b = Zero
    /\ range = Zero
    /\ step = Zero
    /\ sm_k = 0
    /\ Iter = 0
    /\ err = "none"
    /\ warned = {}
    /\ evals = 0
    /\ leave = "none"

\* Lines 82-84: a call without arguments.
sm_usage ==
    /\ UNCHANGED bvars
    /\ spc = "start"
    /\ nrhs' = 0
    /\ err' = "nargs"
    /\ spc' = "done"
    /\ UNCHANGED <<dim, Tol, sm_m, sm_n, M, xvec, a, sm_b, range, step, sm_k,
                   Iter, warned, evals, leave>>

\* Lines 86-128: the arguments, the dimensions and the output vector.  The
\* elements of x are drawn when their vector is copied (sm_column).
sm_call ==
    /\ UNCHANGED bvars
    /\ spc = "start"
    /\ \E nr \in 1..3, dimArg \in {1, 2, 3}, tolArg \in TolVals,
          sz0 \in 1..MaxLen, sz1 \in 1..MaxLen :
        LET d0 == IF nr < 2 THEN 1 ELSE dimArg
            d1 == IF sz0 = 1 THEN 2 ELSE d0
        IN  /\ (IF d1 = 1 THEN sz1 ELSE sz0) <= MaxVecs
            /\ sz0 * sz1 <= MaxElems
            /\ nr < 2 => dimArg = 1
            /\ nr < 3 => tolArg = Zero
            /\ nrhs' = nr
            /\ Tol' = tolArg
            /\ IF d0 # 1 /\ d0 # 2
               THEN /\ dim' = d0
                    /\ err' = "dim"
                    /\ spc' = "done"
                    /\ UNCHANGED <<sm_m, sm_n, M>>
               ELSE /\ dim' = d1
                    /\ sm_m' = (IF d1 = 1 THEN sz0 ELSE sz1)
                    /\ sm_n' = (IF d1 = 1 THEN sz1 ELSE sz0)
                    /\ M' = [j \in Indices(IF d1 = 1 THEN sz1 ELSE sz0) |-> Zero]
                    /\ err' = "none"
                    /\ spc' = "column"
    /\ UNCHANGED <<xvec, a, sm_b, range, step, sm_k, Iter, warned, evals, leave>>

\* Lines 131-154 and the Iter = 0 of line 157.
sm_column ==
    /\ UNCHANGED bvars
    /\ spc = "column"
    /\ \E xs \in SortedVectors(sm_m) :
        /\ xvec' = xs
        /\ M' = [M EXCEPT ![sm_k] = SeedMedian(xs, sm_m)]
        /\ a' = xs[0]
        /\ sm_b' = xs[sm_m - 1]
        /\ range' = DSub(xs[sm_m - 1], xs[0])
        /\ Tol' = (IF nrhs < 3 THEN DefaultTol(DSub(xs[sm_m - 1], xs[0])) ELSE Tol)
    /\ Iter' = 0
    /\ evals' = 0
    /\ leave' = "none"
    /\ spc' = "loop"
    /\ UNCHANGED <<nrhs, dim, sm_m, sm_n, step, sm_k, err, warned>>

\* Line 157: the loop ends when Iter has passed MaxIter.
sm_exhaust ==
    /\ UNCHANGED bvars
    /\ spc = "loop"
    /\ ~LoopContinues(Iter)
    /\ leave' = "cap"
    /\ spc' = "endcol"
    /\ UNCHANGED <<nrhs, dim, Tol, sm_m, sm_n, M, xvec, a, sm_b, range, step,
                   sm_k, Iter, err, warned, evals>>

\* Lines 161-163.
sm_break_range ==
    /\ UNCHANGED bvars
    /\ spc = "loop"
    /\ LoopContinues(Iter)
    /\ RangeBreak(range, Tol)
    /\ leave' = "range"
    /\ spc' = "endcol"
    /\ UNCHANGED <<nrhs, dim, Tol, sm_m, sm_n, M, xvec, a, sm_b, range, step,
                   sm_k, Iter, err, warned, evals>>

\* Lines 166-188: the derivative pass, aborted at the first value that is not
\* finite.
sm_deriv ==
    /\ UNCHANGED bvars
    /\ spc = "loop"
    /\ LoopContinues(Iter)
    /\ ~RangeBreak(range, Tol)
    /\ evals' = evals + 1
    /\ IF AllFinite(xvec)
       THEN /\ step' = NewtonStep(xvec, sm_m, M[sm_k])
            /\ spc' = "converge"
            /\ err' = err
       ELSE /\ err' = "nonfinite"
            /\ spc' = "done"
            /\ step' = step
    /\ UNCHANGED <<nrhs, dim, Tol, sm_m, sm_n, M, xvec, a, sm_b, range, sm_k,
                   Iter, warned, leave>>

\* Lines 191-192.
sm_break_step ==
    /\ UNCHANGED bvars
    /\ spc = "converge"
    /\ Converged(step, Tol)
    /\ leave' = "step"
    /\ spc' = "endcol"
    /\ UNCHANGED <<nrhs, dim, Tol, sm_m, sm_n, M, xvec, a, sm_b, range, step,
                   sm_k, Iter, err, warned, evals>>

\* Lines 193-216 and the Iter++ of line 157.
sm_update ==
    /\ UNCHANGED bvars
    /\ spc = "converge"
    /\ ~Converged(step, Tol)
    /\ LET lo == NewLower(a, M[sm_k], step)
           hi == NewUpper(sm_b, M[sm_k], step)
       IN  /\ a' = lo
           /\ sm_b' = hi
           /\ range' = DSub(hi, lo)
           /\ M' = [M EXCEPT ![sm_k] = NextEstimate(lo, hi, M[sm_k], step)]
    /\ warned' = (IF WarnAt(Iter) THEN warned \cup {sm_k + 1} ELSE warned)
    /\ Iter' = Iter + 1
    /\ spc' = "loop"
    /\ UNCHANGED <<nrhs, dim, Tol, sm_m, sm_n, xvec, step, sm_k, err, evals, leave>>

\* Lines 220-224: xvec.clear (), the k++ of line 129 and the return.
sm_endcol ==
    /\ UNCHANGED bvars
    /\ spc = "endcol"
    /\ xvec' = << >>
    /\ sm_k' = sm_k + 1
    /\ spc' = (IF sm_k + 1 < sm_n THEN "column" ELSE "done")
    /\ UNCHANGED <<nrhs, dim, Tol, sm_m, sm_n, M, a, sm_b, range, step,
                   Iter, err, warned, evals, leave>>

NextMedian ==
    \/ sm_usage
    \/ sm_call
    \/ sm_column
    \/ sm_exhaust
    \/ sm_break_range
    \/ sm_deriv
    \/ sm_break_step
    \/ sm_update
    \/ sm_endcol

Init == InitBoot /\ InitMedian

SpecBoot == Init /\ [][NextBoot]_vars

SpecMedian == Init /\ [][NextMedian]_vars


(***************************************************************************)
(* Properties of smoothmedian.cpp                                          *)
(***************************************************************************)

\* The vector sm_k is being worked on: xvec, a, sm_b and M[sm_k] are set.
InColumn == spc \in {"loop", "converge", "endcol"}

\* The ordinary median of a sorted vector: the middle element of an odd
\* number of values, the mean of the two middle elements of an even number.
MedianOf(xs, len) ==
    IF len % 2 = 1
    THEN xs[(len - 1) \div 2]
    ELSE DMul(Half, DAdd(xs[len \div 2 - 1], xs[len \div 2]))

\* C4 as claimed: for a vector of finite values, at every point of its
\* processing min <= a <= M <= b <= max.
BracketContainment ==
    (InColumn /\ AllFinite(xvec)) =>
        /\ DLe(xvec[0], a)
        /\ DLe(a, M[sm_k])
        /\ DLe(M[sm_k], sm_b)
        /\ DLe(sm_b, xvec[sm_m - 1])

\* C5: while one vector is processed a never decreases, b never increases
\* and range never increases from one step to the next.
BracketMonotone ==
    [][ (spc \in {"loop", "converge"} /\ spc' \in {"loop", "converge", "endcol"}) =>
            /\ (a' = a \/ DLt(a, a'))
            /\ (sm_b' = sm_b \/ DLt(sm_b', sm_b))
            /\ (range' = range \/ DLt(range', range))
      ]_vars

\* C5 witness: after some iterations both bounds have moved inward.
BracketMonotoneWitness ==
    /\ spc = "loop" /\ Iter >= 2 /\ AllFinite(xvec)
    /\ DLt(xvec[0], a)
    /\ DLt(sm_b, xvec[sm_m - 1])
    /\ DLt(range, DSub(xvec[sm_m - 1], xvec[0]))

\* C7 as claimed: a vector that holds a NaN or an infinite value never gets a
\* result, the call is aborted instead.
NonFiniteRejected ==
    spc = "endcol" => AllFinite(xvec)

EndsWithinCap ==
    /\ [](/\ evals <= MaxIter + 1
          /\ warned \subseteq 1..(sm_k + 1)
          /\ spc = "endcol" =>
                /\ leave \in {"range", "step", "cap"}
                /\ err = "none"
                /\ leave = "range" => RangeBreak(range, Tol) /\ Iter <= MaxIter
                /\ leave = "step" => Converged(step, Tol) /\ Iter <= MaxIter
                /\ leave = "cap" => evals = MaxIter + 1 /\ Iter = MaxIter + 1
                /\ (sm_k + 1 \in warned) <=> (leave = "cap"))
    /\ [][ spc = "endcol" =>
                /\ M' = M
                /\ err' = "none"
                /\ sm_k' = sm_k + 1
                /\ spc' = (IF sm_k + 1 < sm_n THEN "column" ELSE "done")
         ]_vars

\* C10 witness: the call returned after the first vector drew the warning
\* and the second vector was processed without one.
EndsWithinCapWitness ==
    /\ spc = "done" /\ err = "none"
    /\ sm_n >= 2
    /\ 1 \in warned
    /\ 2 \notin warned

=============================================================================
